---- MODULE Spec2Model ----
(***************************************************************************)
(* Model of rbtset: RBTreeSet<T>, an ordered set backed by a red-black     *)
(* tree of reference-counted nodes (src/src/node.rs, src/src/tree.rs).     *)
(*                                                                         *)
(* A node is a heap cell named by an address.  The heap is the function    *)
(* `node` from addresses to cells; Nil is the absent Option.  A heap       *)
(* record h carries the cells together with the fields of the set that is  *)
(* being operated on (root, length), the set of allocated cells (live),    *)
(* the flag ok (FALSE once an unwrap()/expect() met None), calls, the      *)
(* number of fixup invocations of the running operation, and tags, the     *)
(* branches of the fixups and of remove_node the running operation took.   *)
(***************************************************************************)
EXTENDS Integers, Sequences, FiniteSets, TLC

\* ---------------------------------------------------------------- bounds
MaxVal == 5          \* the calls take i32 payloads from 1..MaxVal
MaxEnd == 3          \* Seq payloads are the ranges s..e, 0 <= s < e <= MaxEnd
MaxCloneVal == 3     \* payloads used when a clone is alive
MaxPack == 6         \* disjoint Seq payloads are ranges within 0..MaxPack
Extra == 5           \* a collected set holds 1..MaxVal+Extra
Deep == 14           \* the deep set is collected from 1..Deep
MaxDeepVal == 3      \* the calls on the deep set take payloads from 1..MaxDeepVal
\* number of heap cells
MaxNodes == IF MaxVal + Extra + 2 >= Deep THEN MaxVal + Extra + 2 ELSE Deep

Fuel == MaxNodes      \* cut-off of the fixup recursion: one invocation per cell

Nil == 0
NodeIds == 1..MaxNodes
Red == "Red"
Black == "Black"
NoData == <<"none">>

\* ------------------------------------------------------------- payloads
\* i32 k is <<"i32", k>>; the Seq(s..e) of the tests and doc examples is
\* <<"Seq", s, e>>.
I32(k) == <<"i32", k>>
SeqR(s, e) == <<"Seq", s, e>>
IntVals == {I32(k) : k \in 1..MaxVal}
CloneVals == {I32(k) : k \in 1..MaxCloneVal}
SeqVals == {SeqR(q[1], q[2]) : q \in {p \in (0..MaxEnd) \X (0..MaxEnd) : p[1] < p[2]}}
PackVals == {SeqR(q[1], q[2]) : q \in {p \in (0..MaxPack) \X (0..MaxPack) : p[1] < p[2]}}
\* the ranges s..s+1: each is equal (PartialEq) to the element that covers s
DeepVals == {I32(i) : i \in 1..MaxDeepVal}
UnitVals == {SeqR(s, s + 1) : s \in 0..(MaxPack - 1)}

\* the sequences a set is collected from: none, or 1..MaxVal+Extra ascending
Seeds == {<<>>, [i \in 1..(MaxVal + Extra) |-> I32(i)]}

\* PartialEq: i32 equality; Seq: other.start <= self.start < other.end
DataEq(a, b) ==
  IF a[1] = "i32" THEN a[2] = b[2] ELSE b[2] <= a[2] /\ a[2] < b[3]
\* Ord: i32 order; Seq: by start
DataLt(a, b) == a[2] < b[2]
DataLe(a, b) == a[2] <= b[2]
\* Consecutive for Seq
consecutive(a, b) == a[3] = b[2]
merged(a, b) == SeqR(a[2], b[3])

\* ----------------------------------------------------------------- Node
FreeCell == [colour |-> Black, parent |-> Nil, left |-> Nil, right |-> Nil, data |-> NoData]
NewNodeData(d) == [colour |-> Red, parent |-> Nil, left |-> Nil, right |-> Nil, data |-> d]

EmptyHeap ==
  [node |-> [n \in NodeIds |-> FreeCell], live |-> {}, root |-> Nil, length |-> 0,
   ok |-> TRUE, calls |-> 0, tags |-> {}]

\* the running operation took the branch t
Tag(h, t) == [h EXCEPT !.tags = @ \cup {t}]

parent(h, n) == h.node[n].parent
left(h, n) == h.node[n].left
right(h, n) == h.node[n].right
colour(h, n) == h.node[n].colour
data(h, n) == h.node[n].data
\* colour of an Option<Node>: "None" when absent
colourOpt(h, n) == IF n = Nil THEN "None" ELSE h.node[n].colour

set_parent(h, n, p) == [h EXCEPT !.node[n].parent = p]
set_left(h, n, c) == [h EXCEPT !.node[n].left = c]
set_right(h, n, c) == [h EXCEPT !.node[n].right = c]
set_colour(h, n, c) == [h EXCEPT !.node[n].colour = c]
set_data(h, n, d) == [h EXCEPT !.node[n].data = d]
\* swap_data that writes one side only: a takes b's value, b keeps its own
swap_data_one_way(h, a, b) == [h EXCEPT !.node[a].data = h.node[b].data]

swap_data(h, a, b) ==
  [h EXCEPT !.node[a].data = h.node[b].data, !.node[b].data = h.node[a].data]

is_left_child(h, n) == parent(h, n) # Nil /\ left(h, parent(h, n)) = n
sibling(h, n) ==
  IF parent(h, n) = Nil THEN Nil
  ELSE IF is_left_child(h, n) THEN right(h, parent(h, n)) ELSE left(h, parent(h, n))
uncle(h, n) == IF parent(h, n) = Nil THEN Nil ELSE sibling(h, parent(h, n))

\* Node::from: a fresh cell at an unused address
FreshId(h) == CHOOSE n \in NodeIds \ h.live : \A m \in NodeIds \ h.live : n <= m
NodeFrom(h, n, d) == [h EXCEPT !.node[n] = NewNodeData(d), !.live = @ \cup {n}]

\* a failed unwrap()/expect()
Panic(h) == [h EXCEPT !.ok = FALSE]

\* ------------------------------------------------------------ rotations
\* rotate_right without 'self.root = Some(parent)'
rotate_right_keeps_root(h, node) ==
  LET p == left(h, node)
      move_child(x) == set_left(x, node, right(x, p))
      child_parent(x) == IF right(x, p) # Nil THEN set_parent(x, right(x, p), node) ELSE x
      take_node(x) == set_right(x, p, node)
      take_parent(x) == set_parent(x, p, parent(x, node))
      relink(x) == IF parent(x, p) # Nil
                   THEN IF is_left_child(x, node) THEN set_left(x, parent(x, p), p)
                        ELSE set_right(x, parent(x, p), p)
                   ELSE x
      node_parent(x) == set_parent(x, node, p)
  IN IF p = Nil THEN Panic(h)
     ELSE node_parent(relink(take_parent(take_node(child_parent(move_child(h))))))

rotate_right(h, node) ==
  LET p == left(h, node)
      move_child(x) == set_left(x, node, right(x, p))
      child_parent(x) == IF right(x, p) # Nil THEN set_parent(x, right(x, p), node) ELSE x
      take_node(x) == set_right(x, p, node)
      take_parent(x) == set_parent(x, p, parent(x, node))
      relink(x) == IF parent(x, p) # Nil
                   THEN IF is_left_child(x, node) THEN set_left(x, parent(x, p), p)
                        ELSE set_right(x, parent(x, p), p)
                   ELSE [x EXCEPT !.root = p]
      node_parent(x) == set_parent(x, node, p)
  IN IF p = Nil THEN Panic(h)
     ELSE node_parent(relink(take_parent(take_node(child_parent(move_child(h))))))

\* rotate_left that picks the slot by asking whether the new top, not the
\* old one, is a left child
rotate_left_slot_of_new_top(h, node) ==
  LET p == right(h, node)
      move_child(x) == set_right(x, node, left(x, p))
      child_parent(x) == IF left(x, p) # Nil THEN set_parent(x, left(x, p), node) ELSE x
      take_node(x) == set_left(x, p, node)
      take_parent(x) == set_parent(x, p, parent(x, node))
      relink(x) == IF parent(x, p) # Nil
                   THEN IF is_left_child(x, p) THEN set_left(x, parent(x, p), p)
                        ELSE set_right(x, parent(x, p), p)
                   ELSE [x EXCEPT !.root = p]
      node_parent(x) == set_parent(x, node, p)
  IN IF p = Nil THEN Panic(h)
     ELSE node_parent(relink(take_parent(take_node(child_parent(move_child(h))))))

\* rotate_left without 'self.root = Some(parent)'
rotate_left_keeps_root(h, node) ==
  LET p == right(h, node)
      move_child(x) == set_right(x, node, left(x, p))
      child_parent(x) == IF left(x, p) # Nil THEN set_parent(x, left(x, p), node) ELSE x
      take_node(x) == set_left(x, p, node)
      take_parent(x) == set_parent(x, p, parent(x, node))
      relink(x) == IF parent(x, p) # Nil
                   THEN IF is_left_child(x, node) THEN set_left(x, parent(x, p), p)
                        ELSE set_right(x, parent(x, p), p)
                   ELSE x
      node_parent(x) == set_parent(x, node, p)
  IN IF p = Nil THEN Panic(h)
     ELSE node_parent(relink(take_parent(take_node(child_parent(move_child(h))))))

rotate_left(h, node) ==
  LET p == right(h, node)
      move_child(x) == set_right(x, node, left(x, p))
      child_parent(x) == IF left(x, p) # Nil THEN set_parent(x, left(x, p), node) ELSE x
      take_node(x) == set_left(x, p, node)
      take_parent(x) == set_parent(x, p, parent(x, node))
      relink(x) == IF parent(x, p) # Nil
                   THEN IF is_left_child(x, node) THEN set_left(x, parent(x, p), p)
                        ELSE set_right(x, parent(x, p), p)
                   ELSE [x EXCEPT !.root = p]
      node_parent(x) == set_parent(x, node, p)
  IN IF p = Nil THEN Panic(h)
     ELSE node_parent(relink(take_parent(take_node(child_parent(move_child(h))))))

\* ------------------------------------------------------- insert, balance
RECURSIVE insert_from(_, _, _)
\* insert_from that goes right for a smaller value and left for a greater one
insert_from_wrong_side(h, root, d) ==
  IF DataEq(d, data(h, root)) THEN [h |-> h, ret |-> Nil]
  ELSE IF ~DataLe(d, data(h, root)) THEN
    IF left(h, root) = Nil
    THEN [h |-> set_left(set_parent(NodeFrom(h, FreshId(h), d), FreshId(h), root),
                         root, FreshId(h)),
          ret |-> FreshId(h)]
    ELSE insert_from(h, left(h, root), d)
  ELSE IF right(h, root) = Nil
    THEN [h |-> set_right(set_parent(NodeFrom(h, FreshId(h), d), FreshId(h), root),
                          root, FreshId(h)),
          ret |-> FreshId(h)]
  ELSE insert_from(h, right(h, root), d)

insert_from(h, root, d) ==
  IF DataEq(d, data(h, root)) THEN [h |-> h, ret |-> Nil]
  ELSE IF DataLe(d, data(h, root)) THEN
    IF left(h, root) = Nil
    THEN [h |-> set_left(set_parent(NodeFrom(h, FreshId(h), d), FreshId(h), root),
                         root, FreshId(h)),
          ret |-> FreshId(h)]
    ELSE insert_from(h, left(h, root), d)
  ELSE IF right(h, root) = Nil
    THEN [h |-> set_right(set_parent(NodeFrom(h, FreshId(h), d), FreshId(h), root),
                          root, FreshId(h)),
          ret |-> FreshId(h)]
  ELSE insert_from(h, right(h, root), d)

\* balance whose last branch neither recolours nor rotates
balance_rotate_skipped(h, node) == h

\* balance_rotate whose first rotation turns the triangle the wrong way
balance_rotate_wrong_side(h, node) ==
  LET par == parent(h, node)
      parent_is_left == is_left_child(h, par)
      node_is_left == is_left_child(h, node)
      new_node(x) == IF parent_is_left /\ ~node_is_left THEN left(x, node)
                     ELSE IF ~parent_is_left /\ node_is_left THEN right(x, node)
                     ELSE node
      rotate_gparent(x, n, new_gparent) ==
        IF is_left_child(x, n) THEN rotate_right(x, new_gparent)
        ELSE rotate_left(x, new_gparent)
      recolour(x, n) ==
        IF ~x.ok THEN x
        ELSE IF n = Nil \/ parent(x, n) = Nil \/ parent(x, parent(x, n)) = Nil THEN Panic(x)
        ELSE rotate_gparent(
               set_colour(set_colour(x, parent(x, n), Black), parent(x, parent(x, n)), Red),
               n, parent(x, parent(x, n)))
      straighten(x) == recolour(x, new_node(x))
  IN IF parent_is_left /\ ~node_is_left THEN straighten(rotate_right(h, par))
     ELSE IF ~parent_is_left /\ node_is_left THEN straighten(rotate_left(h, par))
     ELSE straighten(h)

\* the last branch of balance: parent Red, uncle Black or absent
balance_rotate(h, node) ==
  LET par == parent(h, node)
      parent_is_left == is_left_child(h, par)
      node_is_left == is_left_child(h, node)
      new_node(x) == IF parent_is_left /\ ~node_is_left THEN left(x, node)
                     ELSE IF ~parent_is_left /\ node_is_left THEN right(x, node)
                     ELSE node
      rotate_gparent(x, n, new_gparent) ==
        IF is_left_child(x, n) THEN rotate_right(x, new_gparent)
        ELSE rotate_left(x, new_gparent)
      recolour(x, n) ==
        IF ~x.ok THEN x
        ELSE IF n = Nil \/ parent(x, n) = Nil \/ parent(x, parent(x, n)) = Nil THEN Panic(x)
        ELSE rotate_gparent(
               set_colour(set_colour(x, parent(x, n), Black), parent(x, parent(x, n)), Red),
               n, parent(x, parent(x, n)))
      straighten(x) == recolour(x, new_node(x))
  IN IF parent_is_left /\ ~node_is_left THEN straighten(rotate_left(h, par))
     ELSE IF ~parent_is_left /\ node_is_left THEN straighten(rotate_right(h, par))
     ELSE straighten(h)

RECURSIVE balance(_, _)
balance(h0, node) ==
  LET h == [h0 EXCEPT !.calls = @ + 1]
      parent_black(x) == set_colour(x, parent(x, node), Black)
      uncle_black(x) == set_colour(x, uncle(x, node), Black)
      climb_up(x, grand_parent) ==
        IF grand_parent = Nil THEN Panic(x)
        ELSE balance(set_colour(x, grand_parent, Red), grand_parent)
      recurse(x) == climb_up(x, parent(x, parent(x, node)))
  IN IF parent(h, node) = Nil THEN set_colour(h, node, Black)
     ELSE IF colour(h, parent(h, node)) = Black THEN h
     ELSE IF colourOpt(h, uncle(h, node)) = Red
       THEN recurse(uncle_black(parent_black(Tag(h, "uncle_red"))))
     ELSE balance_rotate(Tag(h, "uncle_black"), node)

\* insert with 'self.length += 1' outside the 'if let Some'
insert_counts_always(h, d) ==
  LET as_root(n) == [h |-> [NodeFrom(h, n, d) EXCEPT !.root = n], ret |-> n]
      counted(x) == IF x.ok THEN [x EXCEPT !.length = @ + 1] ELSE x
      balanced(r) == IF r.ret = Nil THEN [h |-> [r.h EXCEPT !.length = @ + 1], ret |-> Nil]
                     ELSE [h |-> counted(balance(r.h, r.ret)), ret |-> r.ret]
  IN IF h.root # Nil THEN balanced(insert_from(h, h.root, d))
     ELSE balanced(as_root(FreshId(h)))

insert(h, d) ==
  LET as_root(n) == [h |-> [NodeFrom(h, n, d) EXCEPT !.root = n], ret |-> n]
      counted(x) == IF x.ok THEN [x EXCEPT !.length = @ + 1] ELSE x
      balanced(r) == IF r.ret = Nil THEN r
                     ELSE [h |-> counted(balance(r.h, r.ret)), ret |-> r.ret]
  IN IF h.root # Nil THEN balanced(insert_from(h, h.root, d))
     ELSE balanced(as_root(FreshId(h)))

\* --------------------------------------------------------------- lookup
RECURSIVE get_node_from(_, _, _)
\* the descent of get_node with the two directions exchanged
get_node_from_wrong_side(h, tmp, d) ==
  IF tmp = Nil THEN Nil
  ELSE IF DataEq(d, data(h, tmp)) THEN tmp
  ELSE IF DataLt(d, data(h, tmp)) THEN get_node_from(h, right(h, tmp), d)
  ELSE get_node_from(h, left(h, tmp), d)

get_node_from(h, tmp, d) ==
  IF tmp = Nil THEN Nil
  ELSE IF DataEq(d, data(h, tmp)) THEN tmp
  ELSE IF DataLt(d, data(h, tmp)) THEN get_node_from(h, left(h, tmp), d)
  ELSE get_node_from(h, right(h, tmp), d)

get_node(h, d) == get_node_from(h, h.root, d)
\* get: the clone of the found node's data, NoData for None
get(h, d) == IF get_node(h, d) = Nil THEN NoData ELSE data(h, get_node(h, d))

RECURSIVE leftmost(_, _)
leftmost(h, n) == IF left(h, n) = Nil THEN n ELSE leftmost(h, left(h, n))
RECURSIVE rightmost(_, _)
rightmost(h, n) == IF right(h, n) = Nil THEN n ELSE rightmost(h, right(h, n))
\* first without the descent to the left
first_is_root(h) == h.root
first(h) == IF h.root = Nil THEN Nil ELSE leftmost(h, h.root)
last(h) == IF h.root = Nil THEN Nil ELSE rightmost(h, h.root)

\* the climb of successor: while tmp is the right child of its parent
RECURSIVE climb(_, _)
climb(h, tmp) ==
  IF parent(h, tmp) # Nil /\ right(h, parent(h, tmp)) = tmp
  THEN climb(h, parent(h, tmp)) ELSE parent(h, tmp)

\* successor without the climb
successor_no_climb(h, n) ==
  IF right(h, n) # Nil THEN leftmost(h, right(h, n))
  ELSE parent(h, n)

successor(h, n) ==
  IF right(h, n) # Nil THEN leftmost(h, right(h, n))
  ELSE IF is_left_child(h, n) THEN parent(h, n)
  ELSE climb(h, n)

len(h) == h.length
is_empty(h) == h.length = 0

\* ------------------------------------------------------------- deletion
\* the branch without the final 'parent.set_colour(Colour::Black)'
fixup_rotate_parent_kept(h, node, par, sib) ==
  LET then_left(x) == IF x.ok THEN rotate_left(x, par) ELSE x
      then_right(x) == IF x.ok THEN rotate_right(x, par) ELSE x
      sib_takes_parent(x) == set_colour(x, sib, colour(x, par))
  IN IF colourOpt(h, left(h, sib)) = Red THEN
       IF is_left_child(h, sib)
       THEN rotate_right(sib_takes_parent(set_colour(h, left(h, sib), colour(h, sib))), par)
       ELSE then_left(rotate_right(set_colour(h, left(h, sib), colour(h, par)), sib))
     ELSE
       IF is_left_child(h, sib)
       THEN then_right(rotate_left(set_colour(h, right(h, sib), colour(h, par)), sib))
       ELSE rotate_left(sib_takes_parent(set_colour(h, right(h, sib), colour(h, sib))), par)

\* the 'sibling Black with a Red child' branch of double_black_fixup
fixup_rotate(h, node, par, sib) ==
  LET then_left(x) == IF x.ok THEN rotate_left(x, par) ELSE x
      then_right(x) == IF x.ok THEN rotate_right(x, par) ELSE x
      sib_takes_parent(x) == set_colour(x, sib, colour(x, par))
      parent_black(x) == IF x.ok THEN set_colour(x, par, Black) ELSE x
  IN IF colourOpt(h, left(h, sib)) = Red THEN
       IF is_left_child(h, sib)
       THEN parent_black(
              rotate_right(sib_takes_parent(set_colour(h, left(h, sib), colour(h, sib))), par))
       ELSE parent_black(
              then_left(rotate_right(set_colour(h, left(h, sib), colour(h, par)), sib)))
     ELSE
       IF is_left_child(h, sib)
       THEN parent_black(
              then_right(rotate_left(set_colour(h, right(h, sib), colour(h, par)), sib)))
       ELSE parent_black(
              rotate_left(sib_takes_parent(set_colour(h, right(h, sib), colour(h, sib))), par))

RECURSIVE double_black_fixup(_, _)
\* double_black_fixup whose Red-sibling branch fixes the node again before
\* the recolouring and the rotation instead of after them
double_black_fixup_retry_first(h0, node) ==
  LET h == [h0 EXCEPT !.calls = @ + 1]
      par == parent(h, node)
      sib == sibling(h, node)
      again(x) == IF x.ok THEN double_black_fixup(x, node) ELSE x
      rotate_parent(x) == IF ~x.ok THEN x
                          ELSE IF is_left_child(x, sib) THEN rotate_right(x, par)
                          ELSE rotate_left(x, par)
      push_up(x) == IF colour(x, par) = Black THEN double_black_fixup(x, par)
                    ELSE set_colour(x, par, Black)
  IN IF h.calls > Fuel THEN Panic(h)
     ELSE IF h.root = node THEN h
     ELSE IF parent(h, node) = Nil THEN Panic(h)
     ELSE IF sib # Nil THEN
       IF colour(h, sib) = Red THEN
         rotate_parent(again(Tag(h, "sibling_red")))
       ELSE IF colourOpt(h, left(h, sib)) = Red \/ colourOpt(h, right(h, sib)) = Red THEN
         fixup_rotate(Tag(h, "nephew_red"), node, par, sib)
       ELSE push_up(set_colour(Tag(h, "nephews_black"), sib, Red))
     ELSE double_black_fixup(Tag(h, "no_sibling"), par)

double_black_fixup(h0, node) ==
  LET h == [h0 EXCEPT !.calls = @ + 1]
      par == parent(h, node)
      sib == sibling(h, node)
      \* sibling Red: recolour, rotate at the parent, fix node again
      again(x) == IF x.ok THEN double_black_fixup(x, node) ELSE x
      rotate_parent(x) == IF is_left_child(x, sib) THEN rotate_right(x, par)
                          ELSE rotate_left(x, par)
      \* sibling Black with Black children: the parent takes the extra Black
      push_up(x) == IF colour(x, par) = Black THEN double_black_fixup(x, par)
                    ELSE set_colour(x, par, Black)
  IN IF h.calls > Fuel THEN Panic(h)
     ELSE IF h.root = node THEN h
     ELSE IF parent(h, node) = Nil THEN Panic(h)
     ELSE IF sib # Nil THEN
       IF colour(h, sib) = Red THEN
         again(rotate_parent(set_colour(set_colour(Tag(h, "sibling_red"), par, Red), sib, Black)))
       ELSE IF colourOpt(h, left(h, sib)) = Red \/ colourOpt(h, right(h, sib)) = Red THEN
         fixup_rotate(Tag(h, "nephew_red"), node, par, sib)
       ELSE push_up(set_colour(Tag(h, "nephews_black"), sib, Red))
     ELSE double_black_fixup(Tag(h, "no_sibling"), par)

\* self.length -= 1 (a usize: a debug build panics below 0)
dec_length(h) == IF h.length = 0 THEN Panic(h) ELSE [h EXCEPT !.length = @ - 1]

\* remove_leaf that takes the node out of its parent's slot before the
\* fixup instead of after it
remove_leaf_unlinks_first(h, node, double_black) ==
  LET unlink(x) == IF parent(x, node) # Nil
                   THEN IF is_left_child(x, node) THEN set_left(x, parent(x, node), Nil)
                        ELSE set_right(x, parent(x, node), Nil)
                   ELSE x
      finish(x) == IF x.ok THEN dec_length(x) ELSE x
  IN IF h.root = node THEN dec_length([Tag(h, "root") EXCEPT !.root = Nil])
     ELSE IF double_black
       THEN finish(double_black_fixup(unlink(Tag(h, "double_black")), node))
     ELSE IF sibling(h, node) # Nil
       THEN finish(unlink(set_colour(h, sibling(h, node), Red)))
     ELSE finish(unlink(h))

\* remove_leaf that paints the sibling Black instead of Red
remove_leaf_sibling_black(h, node, double_black) ==
  LET unlink(x) == IF parent(x, node) # Nil
                   THEN IF is_left_child(x, node) THEN set_left(x, parent(x, node), Nil)
                        ELSE set_right(x, parent(x, node), Nil)
                   ELSE x
      finish(x) == IF x.ok THEN dec_length(unlink(x)) ELSE x
  IN IF h.root = node THEN dec_length([Tag(h, "root") EXCEPT !.root = Nil])
     ELSE IF double_black THEN finish(double_black_fixup(Tag(h, "double_black"), node))
     ELSE IF sibling(h, node) # Nil THEN finish(set_colour(h, sibling(h, node), Black))
     ELSE finish(h)

\* the branch of remove_node for a node without children
remove_leaf(h, node, double_black) ==
  LET \* the parent drops its link to node
      unlink(x) == IF parent(x, node) # Nil
                   THEN IF is_left_child(x, node) THEN set_left(x, parent(x, node), Nil)
                        ELSE set_right(x, parent(x, node), Nil)
                   ELSE x
      finish(x) == IF x.ok THEN dec_length(unlink(x)) ELSE x
  IN IF h.root = node THEN dec_length([Tag(h, "root") EXCEPT !.root = Nil])
     ELSE IF double_black THEN finish(double_black_fixup(Tag(h, "double_black"), node))
     ELSE IF sibling(h, node) # Nil THEN finish(set_colour(h, sibling(h, node), Red))
     ELSE finish(h)

\* remove_single without 'node.swap_data(&mut substitute)' at the root
remove_single_no_swap(h, node, substitute, double_black) ==
  LET par == parent(h, node)
      splice(x) == IF is_left_child(x, node) THEN set_left(x, par, substitute)
                   ELSE set_right(x, par, substitute)
      adopt(x) == set_parent(x, substitute, parent(x, node))
      recolour(x) == IF double_black THEN double_black_fixup(Tag(x, "double_black"), substitute)
                     ELSE set_colour(x, substitute, Black)
      finish(x) == IF x.ok THEN dec_length(x) ELSE x
  IN IF h.root = node
     THEN dec_length(set_right(set_left(Tag(h, "root"), node, Nil), node, Nil))
     ELSE IF parent(h, node) # Nil THEN finish(recolour(adopt(splice(h))))
     ELSE dec_length(h)

\* remove_single without 'substitute.set_colour(Colour::Black)'
remove_single_keeps_colour(h, node, substitute, double_black) ==
  LET par == parent(h, node)
      splice(x) == IF is_left_child(x, node) THEN set_left(x, par, substitute)
                   ELSE set_right(x, par, substitute)
      adopt(x) == set_parent(x, substitute, parent(x, node))
      recolour(x) == IF double_black THEN double_black_fixup(Tag(x, "double_black"), substitute)
                     ELSE x
      finish(x) == IF x.ok THEN dec_length(x) ELSE x
  IN IF h.root = node
     THEN dec_length(set_right(set_left(swap_data(Tag(h, "root"), node, substitute), node, Nil),
                               node, Nil))
     ELSE IF parent(h, node) # Nil THEN finish(recolour(adopt(splice(h))))
     ELSE dec_length(h)

\* the branch of remove_node for a node with exactly one child
remove_single(h, node, substitute, double_black) ==
  LET par == parent(h, node)
      splice(x) == IF is_left_child(x, node) THEN set_left(x, par, substitute)
                   ELSE set_right(x, par, substitute)
      adopt(x) == set_parent(x, substitute, parent(x, node))
      recolour(x) == IF double_black THEN double_black_fixup(Tag(x, "double_black"), substitute)
                     ELSE set_colour(x, substitute, Black)
      finish(x) == IF x.ok THEN dec_length(x) ELSE x
  IN IF h.root = node
     THEN dec_length(set_right(set_left(swap_data(Tag(h, "root"), node, substitute), node, Nil),
                               node, Nil))
     ELSE IF parent(h, node) # Nil THEN finish(recolour(adopt(splice(h))))
     ELSE dec_length(h)

RECURSIVE remove_node(_, _)
remove_node(h, node) ==
  LET new_node == IF left(h, node) # Nil /\ right(h, node) # Nil THEN successor(h, node)
                  ELSE IF left(h, node) # Nil THEN left(h, node)
                  ELSE right(h, node)
      double_black == colour(h, node) = Black /\ colourOpt(h, new_node) # Red
  IN IF new_node = Nil THEN remove_leaf(Tag(h, "leaf"), node, double_black)
     ELSE IF left(h, node) = Nil \/ right(h, node) = Nil
       THEN remove_single(Tag(h, "one_child"), node, new_node, double_black)
     ELSE remove_node(swap_data(Tag(h, "two_children"), new_node, node), new_node)

\* remove that answers true whatever get_node found
remove_always_true(h, d) ==
  LET n == get_node(h, d)
  IN IF n = Nil THEN [h |-> h, ret |-> TRUE]
     ELSE [h |-> remove_node(h, n), ret |-> TRUE]

remove(h, d) ==
  LET n == get_node(h, d)
  IN IF n = Nil THEN [h |-> h, ret |-> FALSE]
     ELSE [h |-> remove_node(h, n), ret |-> TRUE]

\* clear without 'self.length = 0'
clear_keeps_length(h) == [h EXCEPT !.root = Nil]
clear(h) == [h EXCEPT !.root = Nil, !.length = 0]

\* ------------------------------------------------------------ iteration
\* Iter::next on an iterator whose cursor is c: the item and the new cursor
iter_next(h, c) == [item |-> c, cursor |-> IF c # Nil THEN successor(h, c) ELSE c]

\* the results of k calls of next()
RECURSIVE take(_, _, _)
take(h, c, k) ==
  IF k = 0 THEN <<>> ELSE <<iter_next(h, c).item>> \o take(h, iter_next(h, c).cursor, k - 1)

\* iter().collect(): next() until it returns None
RECURSIVE collect(_, _, _)
collect(h, c, fuel) ==
  IF iter_next(h, c).item = Nil \/ fuel = 0 THEN <<>>
  ELSE <<iter_next(h, c).item>> \o collect(h, iter_next(h, c).cursor, fuel - 1)

iter(h) == first(h)
\* iter_from that starts at the first node whatever node it is given
iter_from_restarts(h, n) == first(h)
iter_from(h, n) == n
\* IterValues: clone_data of every item
values_of(h, items) == [i \in 1..Len(items) |-> data(h, items[i])]
values(h) == values_of(h, collect(h, iter(h), MaxNodes + 1))
values_from(h, n) == values_of(h, collect(h, iter_from(h, n), MaxNodes + 1))

\* ---------------------------------------------------------------- clone
RECURSIVE clone_subtree(_, _)
clone_subtree(h, sub) ==
  IF sub = Nil THEN [h |-> h, ret |-> Nil]
  ELSE
    LET c == FreshId(h)
        \* the parent links of the two copied children
        link_left(x) == IF left(x, c) # Nil THEN set_parent(x, left(x, c), c) ELSE x
        link_right(x) == IF right(x, c) # Nil THEN set_parent(x, right(x, c), c) ELSE x
        done(r) == [h |-> link_right(link_left(set_right(r.h, c, r.ret))), ret |-> c]
        with_left(x) == done(clone_subtree(x, right(x, sub)))
        copy_left(l) == with_left(set_left(l.h, c, l.ret))
        copy(x) == copy_left(clone_subtree(x, left(x, sub)))
    IN copy(set_colour(NodeFrom(h, c, data(h, sub)), c, colour(h, sub)))

\* a clone that shares the root node with the source
clone_shares_root(h) == [h |-> h, root |-> h.root, length |-> h.length]

\* Clone for RBTreeSet: the heap after the copy, the clone's root and length
clone(h) ==
  LET r == clone_subtree(h, h.root) IN [h |-> r.h, root |-> r.ret, length |-> h.length]

\* --------------------------------------------------------------- repack
RECURSIVE fold_merged(_, _, _)
fold_merged(acc, i, a) ==
  IF i > Len(acc) THEN a ELSE fold_merged(acc, i + 1, merged(a, acc[i]))

RECURSIVE remove_all(_, _, _)
\* the removals taken from acc[1..len-1]: the first element of the run stays
remove_all_skips_first(h, acc, i) ==
  IF i > Len(acc) - 1 \/ ~h.ok THEN h
  ELSE IF i = 1 THEN remove_all(h, acc, 2)
  ELSE remove_all(remove(h, acc[i]).h, acc, i + 1)

remove_all(h, acc, i) ==
  IF i > Len(acc) - 1 \/ ~h.ok THEN h ELSE remove_all(remove(h, acc[i]).h, acc, i + 1)

\* merge_run without 'last_node.set_data(new_data)'
merge_run_no_store(h, acc) ==
  LET store(x, last_node) == IF last_node = Nil THEN Panic(x) ELSE x
      finish(x) == IF ~x.ok THEN x ELSE store(x, get_node(x, acc[Len(acc)]))
  IN finish(remove_all(h, acc, 1))

\* the body of 'if acc.len() > 1'
merge_run(h, acc) ==
  LET new_data == fold_merged(acc, 2, acc[1])
      \* last_node.set_data(new_data), last_node found after the removals
      store(x, last_node) == IF last_node = Nil THEN Panic(x) ELSE set_data(x, last_node, new_data)
      finish(x) == IF ~x.ok THEN x ELSE store(x, get_node(x, acc[Len(acc)]))
  IN finish(remove_all(h, acc, 1))

\* the inner while loop; it is the cursor of the iterator 'nodes'
RECURSIVE repack_run(_, _, _, _, _)
repack_run(h, it, prev, cursor, acc) ==
  IF consecutive(data(h, prev), data(h, cursor)) THEN
    LET nx == iter_next(h, it)
    IN IF nx.item # Nil
       THEN repack_run(h, nx.cursor, cursor, nx.item, Append(acc, data(h, cursor)))
       ELSE [it |-> nx.cursor, prev |-> cursor, cursor |-> cursor,
             acc |-> Append(acc, data(h, cursor))]
  ELSE [it |-> it, prev |-> prev, cursor |-> cursor, acc |-> acc]

\* the outer while loop
RECURSIVE repack_loop(_, _, _)
repack_loop(h, it, prev) ==
  LET nx == iter_next(h, it)
  IN IF nx.item = Nil \/ ~h.ok THEN h
     ELSE LET r == repack_run(h, nx.cursor, prev, nx.item, <<data(h, prev)>>)
              h1 == IF Len(r.acc) > 1 THEN merge_run(h, r.acc) ELSE h
          IN repack_loop(h1, r.it, r.cursor)

\* repack without the early return on an empty set
repack_no_empty_check(h) ==
  LET nx == iter_next(h, iter(h))
  IN IF nx.item = Nil THEN Panic(h) ELSE repack_loop(h, nx.cursor, nx.item)

repack(h) ==
  IF is_empty(h) THEN h
  ELSE LET nx == iter_next(h, iter(h))
       IN IF nx.item = Nil THEN Panic(h) ELSE repack_loop(h, nx.cursor, nx.item)

\* FromIterator: new(), then insert every item of the sequence q
RECURSIVE from_iter_upto(_, _)
from_iter_upto(q, k) ==
  IF k = 0 THEN EmptyHeap ELSE insert(from_iter_upto(q, k - 1), q[k]).h
from_iter(q) == from_iter_upto(q, Len(q))

\* ------------------------------------------------------ reference counts
\* The cells owned (through left/right) from n, in-order; d bounds the depth.
RECURSIVE owned(_, _, _)
owned(h, n, d) ==
  IF n = Nil \/ d = 0 THEN <<>>
  ELSE owned(h, left(h, n), d - 1) \o <<n>> \o owned(h, right(h, n), d - 1)

RECURSIVE Dedup(_)
Dedup(q) ==
  IF q = <<>> THEN <<>>
  ELSE LET r == Dedup(SubSeq(q, 1, Len(q) - 1))
       IN IF \E i \in 1..Len(r) : r[i] = q[Len(q)] THEN r ELSE Append(r, q[Len(q)])

\* Rc/Weak: a cell lives while the set's root, the clone's root or a handle
\* held by the caller owns it; a Weak parent link to a dropped cell upgrades
\* to None.  Addresses carry no meaning, so the surviving cells are renamed
\* in the order: the set in-order, the clone in-order, the rest.
Survivors(h, cr, hd) ==
  Dedup(owned(h, h.root, MaxNodes) \o owned(h, cr, MaxNodes) \o owned(h, hd, MaxNodes))

Rename(ord) ==
  [p \in 0..MaxNodes |->
     IF \E i \in 1..Len(ord) : ord[i] = p THEN CHOOSE i \in 1..Len(ord) : ord[i] = p ELSE Nil]

Collect(h, cr, hd) ==
  LET ord == Survivors(h, cr, hd)
      ren == Rename(ord)
  IN [node |-> [i \in NodeIds |->
                  IF i <= Len(ord)
                  THEN LET c == h.node[ord[i]]
                       IN [colour |-> c.colour, parent |-> ren[c.parent], left |-> ren[c.left],
                           right |-> ren[c.right], data |-> c.data]
                  ELSE FreeCell],
      ren |-> ren]

Elems(q) == {q[i] : i \in 1..Len(q)}
\* the nodes reachable from the root of h, and the values they hold
Nodes(h) == Elems(owned(h, h.root, MaxNodes))
Members(h) == {data(h, n) : n \in Nodes(h)}

\* ---------------------------------------------------------------- state
VARIABLES
  node,     \* the heap: address -> cell
  root,     \* RBTreeSet.root of the set
  length,   \* RBTreeSet.length of the set
  cloned,   \* TRUE once the caller holds a clone of the set
  croot,    \* root of the clone
  clength,  \* length of the clone
  handle,   \* a Node handle kept by the caller (Nil: none)
  ref,      \* the reference set of the set: insert adds, remove deletes
  cref,     \* the reference set of the clone
  call,     \* the last call: operation, argument and result
  ok        \* FALSE once a call panicked

vars == <<node, root, length, cloned, croot, clength, handle, ref, cref, call, ok>>

Live == {n \in NodeIds : node[n] # FreeCell}
\* the heap as seen by a call on the set, and by a call on the clone
H == [node |-> node, live |-> Live, root |-> root, length |-> length, ok |-> TRUE, calls |-> 0,
      tags |-> {}]
HC == [node |-> node, live |-> Live, root |-> croot, length |-> clength, ok |-> TRUE,
       calls |-> 0, tags |-> {}]

\* the cells and the root of a heap, as a removing call found and left them;
\* in both the cells carry the addresses they had when the call began
Snap(h) == [node |-> h.node, root |-> h.root]
NoSnap == [node |-> <<>>, root |-> Nil]

\* the record of a call: the operation, its argument and results, whether
\* the reference set held the argument (was), the fixup invocations and
\* branches, and what the callee (mem0, vals0, len0) and the other one of
\* set and clone (ovals0, olen0) held before the call, and for remove,
\* remove_node and repack the heap before (h0) and after (h1) the call
NoLast ==
  [op |-> "new", arg |-> NoData, was |-> FALSE, retNode |-> Nil, retBool |-> FALSE,
   retData |-> NoData, items |-> <<>>, calls |-> 0, tags |-> {},
   mem0 |-> {}, vals0 |-> <<>>, len0 |-> 0, ovals0 |-> <<>>, olen0 |-> 0,
   h0 |-> NoSnap, h1 |-> NoSnap]

\* the set is new() or collected from one of the sequences Seeds
InitFrom(q) ==
  LET h == from_iter(q)
      c == Collect(h, Nil, Nil)
  IN /\ node = c.node
     /\ root = c.ren[h.root] /\ length = h.length
     /\ cloned = FALSE /\ croot = Nil /\ clength = 0
     /\ handle = Nil
     /\ ref = {q[i] : i \in 1..Len(q)} /\ cref = {}
     /\ call = NoLast
     /\ ok = h.ok

Init == \E q \in Seeds : InitFrom(q)

\* the record of a call on the set, and of a call on the clone, before it runs
Pre ==
  [NoLast EXCEPT !.mem0 = Members(H), !.vals0 = values(H), !.len0 = length,
                 !.ovals0 = values(HC), !.olen0 = clength]
PreClone ==
  [NoLast EXCEPT !.mem0 = Members(HC), !.vals0 = values(HC), !.len0 = clength,
                 !.ovals0 = values(H), !.olen0 = length]

\* n is owned, through left/right links, from rt
Owns(h, rt, n) == \E i \in 1..Len(owned(h, rt, MaxNodes)) : owned(h, rt, MaxNodes)[i] = n

\* the caller keeps a handle while its node belongs to the set, and drops it
\* when a call has detached the node
Kept(h, rt, hd) == IF hd # Nil /\ Owns(h, rt, hd) THEN hd ELSE Nil

\* the next state of the heap and of the handles: the cells of h that rt,
\* cr (the roots of the set and of the clone) and hd (the handle) keep alive
Commit(h, rt, cr, hd) ==
  LET c == Collect([h EXCEPT !.root = rt], cr, Kept(h, rt, hd))
  IN /\ node' = c.node
     /\ root' = c.ren[rt]
     /\ croot' = c.ren[cr]
     /\ handle' = c.ren[Kept(h, rt, hd)]
     /\ ok' = h.ok

\* the name after the call of the cell that was n in h
Renamed(h, rt, cr, hd, n) == Collect([h EXCEPT !.root = rt], cr, Kept(h, rt, hd)).ren[n]

Insert(v) ==
  /\ ok /\ Cardinality(Live) < MaxNodes
  /\ LET r == insert(H, v)
     IN /\ Commit(r.h, r.h.root, croot, handle)
        /\ length' = r.h.length
        /\ call' = [Pre EXCEPT !.op = "insert", !.arg = v, !.was = (v \in ref),
                                  !.retNode = Renamed(r.h, r.h.root, croot, handle, r.ret),
                                  !.calls = r.h.calls, !.tags = r.h.tags]
  /\ ref' = IF v[1] = "i32" THEN ref \cup {v} ELSE ref
  /\ UNCHANGED <<cloned, clength, cref>>

Remove(v) ==
  /\ ok
  /\ LET r == remove(H, v)
     IN /\ Commit(r.h, r.h.root, croot, handle)
        /\ length' = r.h.length
        /\ call' = [Pre EXCEPT !.op = "remove", !.arg = v, !.was = (v \in ref),
                                  !.retBool = r.ret, !.calls = r.h.calls, !.tags = r.h.tags,
                                  !.h0 = Snap(H), !.h1 = Snap(r.h)]
  /\ ref' = ref \ {v}
  /\ UNCHANGED <<cloned, clength, cref>>

Get(v) ==
  /\ ok
  /\ call' = [Pre EXCEPT !.op = "get", !.arg = v, !.was = (v \in ref),
                            !.retData = get(H, v), !.retNode = get_node(H, v)]
  /\ UNCHANGED <<node, root, length, cloned, croot, clength, handle, ref, cref, ok>>

\* get_node, when it finds a node; the caller keeps the handle
GetNode(v) ==
  /\ ok
  /\ get_node(H, v) # Nil
  /\ Commit(H, root, croot, get_node(H, v))
  /\ call' = [Pre EXCEPT !.op = "get_node", !.arg = v, !.was = (v \in ref),
                            !.retNode = Renamed(H, root, croot, get_node(H, v), get_node(H, v))]
  /\ UNCHANGED <<length, cloned, clength, ref, cref>>

\* let mut n = get_node(v).unwrap(); remove_node(&mut n)
RemoveFound(v) ==
  /\ ok
  /\ get_node(H, v) # Nil
  /\ LET h1 == remove_node(H, get_node(H, v))
     IN /\ Commit(h1, h1.root, croot, handle)
        /\ length' = h1.length
        /\ call' = [Pre EXCEPT !.op = "remove_node", !.arg = data(H, get_node(H, v)),
                                  !.was = TRUE, !.calls = h1.calls, !.tags = h1.tags,
                                  !.retNode = get_node(H, v), !.h0 = Snap(H), !.h1 = Snap(h1)]
  /\ ref' = ref \ {data(H, get_node(H, v))}
  /\ UNCHANGED <<cloned, clength, cref>>

\* remove_node on the handle the caller kept, while it belongs to the set
RemoveNode ==
  /\ ok
  /\ handle # Nil /\ Owns(H, root, handle)
  /\ LET h1 == remove_node(H, handle)
     IN /\ Commit(h1, h1.root, croot, handle)
        /\ length' = h1.length
        /\ call' = [Pre EXCEPT !.op = "remove_node", !.arg = node[handle].data,
                                  !.was = TRUE, !.calls = h1.calls, !.tags = h1.tags,
                                  !.retNode = handle, !.h0 = Snap(H), !.h1 = Snap(h1)]
  /\ ref' = ref \ {node[handle].data}
  /\ UNCHANGED <<cloned, clength, cref>>

Clear ==
  /\ ok
  /\ Commit(clear(H), clear(H).root, croot, handle)
  /\ length' = clear(H).length
  /\ call' = [Pre EXCEPT !.op = "clear"]
  /\ ref' = {}
  /\ UNCHANGED <<cloned, clength, cref>>

\* iter(): next() is called len() + 2 times
Iterate ==
  /\ ok
  /\ call' = [Pre EXCEPT !.op = "iter", !.items = take(H, iter(H), length + 2)]
  /\ UNCHANGED <<node, root, length, cloned, croot, clength, handle, ref, cref, ok>>

\* let n = get_node(v).unwrap(); iter_from(&n): next() is called len() + 2 times
IterFrom(v) ==
  /\ ok
  /\ get_node(H, v) # Nil
  /\ call' = [Pre EXCEPT !.op = "iter_from", !.arg = v, !.was = (v \in ref),
                            !.retNode = get_node(H, v),
                            !.items = take(H, iter_from(H, get_node(H, v)), length + 2)]
  /\ UNCHANGED <<node, root, length, cloned, croot, clength, handle, ref, cref, ok>>

\* repack(); was: some run was merged
Repack ==
  /\ ok
  /\ LET h1 == repack(H)
     IN /\ Commit(h1, h1.root, croot, handle)
        /\ length' = h1.length
        /\ call' = [Pre EXCEPT !.op = "repack", !.was = (h1.length < length),
                                  !.tags = h1.tags, !.h0 = Snap(H), !.h1 = Snap(h1)]
  /\ UNCHANGED <<cloned, clength, ref, cref>>

\* let clone = set.clone()
Clone ==
  /\ ok /\ ~cloned
  /\ 2 * Cardinality(Live) <= MaxNodes
  /\ LET r == clone(H)
     IN /\ Commit(r.h, root, r.root, handle)
        /\ clength' = r.length
  /\ cloned' = TRUE
  /\ cref' = ref
  /\ call' = [Pre EXCEPT !.op = "clone"]
  /\ UNCHANGED <<length, ref>>

\* clone.insert(v)
InsertClone(v) ==
  /\ ok /\ cloned /\ Cardinality(Live) < MaxNodes
  /\ LET r == insert(HC, v)
     IN /\ Commit(r.h, root, r.h.root, handle)
        /\ clength' = r.h.length
        /\ call' = [PreClone EXCEPT !.op = "clone.insert", !.arg = v, !.was = (v \in cref),
                                  !.retNode = Renamed(r.h, root, r.h.root, handle, r.ret),
                                  !.calls = r.h.calls, !.tags = r.h.tags]
  /\ cref' = cref \cup {v}
  /\ UNCHANGED <<cloned, length, ref>>

\* clone.remove(v)
RemoveClone(v) ==
  /\ ok /\ cloned
  /\ LET r == remove(HC, v)
     IN /\ Commit(r.h, root, r.h.root, handle)
        /\ clength' = r.h.length
        /\ call' = [PreClone EXCEPT !.op = "clone.remove", !.arg = v, !.was = (v \in cref),
                                  !.retBool = r.ret, !.calls = r.h.calls, !.tags = r.h.tags]
  /\ cref' = cref \ {v}
  /\ UNCHANGED <<cloned, length, ref>>

\* ------------------------------------------------------- specifications
\* i32 payloads: insert, remove, get and iter, from new() or a collected set
Next ==
  \/ \E v \in IntVals : Insert(v)
  \/ \E v \in IntVals : Remove(v)
  \/ \E v \in IntVals : Get(v)
  \/ Iterate
  \/ \E v \in IntVals : IterFrom(v)

Spec == Init /\ [][Next]_vars

\* Seq payloads: every mutating call, from new()
InitSeq == InitFrom(<<>>)

NextSeq ==
  \/ \E v \in SeqVals : Insert(v)
  \/ \E v \in SeqVals : Remove(v)
  \/ \E v \in SeqVals : GetNode(v)
  \/ RemoveNode
  \/ Clear
  \/ Repack

SpecSeq == InitSeq /\ [][NextSeq]_vars

\* a set and its clone, from new()
InitClone == InitFrom(<<>>)

NextClone ==
  \/ \E v \in CloneVals : Insert(v)
  \/ \E v \in CloneVals : Remove(v)
  \/ Clone
  \/ \E v \in CloneVals : InsertClone(v)
  \/ \E v \in CloneVals : RemoveClone(v)

SpecClone == InitClone /\ [][NextClone]_vars

\* disjoint Seq payloads: v overlaps no element of the set
Disjoint(v) == \A m \in Members(H) : v[3] <= m[2] \/ m[3] <= v[2]

\* every mutating call on sets of pairwise disjoint ranges, from new()
InitPack == InitFrom(<<>>)

NextPack ==
  \/ \E v \in PackVals : Disjoint(v) /\ Insert(v)
  \/ \E v \in UnitVals : Remove(v)
  \/ \E v \in UnitVals : RemoveFound(v)
  \/ Clear
  \/ Repack

SpecPack == InitPack /\ [][NextPack]_vars

\* a set that only grows: inserts of i32 payloads in every order, from new()
InitGrow == InitFrom(<<>>)

NextGrow == \E v \in IntVals : Insert(v)

SpecGrow == InitGrow /\ [][NextGrow]_vars

\* a set collected from 1..Deep ascending, high enough for a delete-fixup
\* to climb and then meet a Red sibling; inserts and removes at its low end
InitDeep == InitFrom([i \in 1..Deep |-> I32(i)])

NextDeep ==
  \/ \E v \in DeepVals : Insert(v)
  \/ \E v \in DeepVals : Remove(v)

SpecDeep == InitDeep /\ [][NextDeep]_vars

\* ----------------------------------------------------------- properties
Ascending(vs) == \A i \in 1..(Len(vs) - 1) : DataLt(vs[i], vs[i + 1])
Without(q, v) == SelectSeq(q, LAMBDA x : x # v)
TreeUnchanged == node' = node /\ root' = root /\ length' = length
\* a sequence of ranges with every maximal run of adjacent elements, each
\* beginning where its predecessor ends, replaced by first.start..last.end
RECURSIVE PackSeq(_)
PackSeq(vs) ==
  IF Len(vs) <= 1 THEN vs
  ELSE LET r == PackSeq(SubSeq(vs, 1, Len(vs) - 1))
           x == vs[Len(vs)]
       IN IF r[Len(r)][3] = x[2] THEN [r EXCEPT ![Len(r)] = <<"Seq", r[Len(r)][2], x[3]>>]
          ELSE Append(r, x)
\* no element of vs begins where its predecessor ends
NoAdjacent(vs) == \A i \in 1..(Len(vs) - 1) : vs[i][3] # vs[i + 1][2]
\* the elements of the set S of payloads in ascending order
RECURSIVE SortSet(_)
SortSet(S) ==
  IF S = {} THEN <<>>
  ELSE LET m == CHOOSE x \in S : \A y \in S : DataLe(x, y)
       IN <<m>> \o SortSet(S \ {m})

RootBlack(h) == h.root = Nil \/ colour(h, h.root) = Black
NoRedRed(h) ==
  \A n \in Nodes(h) :
    colour(h, n) = Red => colourOpt(h, left(h, n)) # Red /\ colourOpt(h, right(h, n)) # Red
\* the number of Black nodes on every path from n to an absent child, -1 when
\* two paths differ
RECURSIVE BlackHeight(_, _)
BlackHeight(h, n) ==
  IF n = Nil THEN 0
  ELSE LET l == BlackHeight(h, left(h, n))
           r == BlackHeight(h, right(h, n))
       IN IF l = -1 \/ r = -1 \/ l # r THEN -1
          ELSE l + (IF colour(h, n) = Black THEN 1 ELSE 0)

\* binary-search-tree order: below every node the left subtree holds
\* smaller values and the right subtree greater ones
SearchOrder(h) ==
  \A n \in Nodes(h) :
    /\ \A m \in Elems(owned(h, left(h, n), MaxNodes)) : DataLt(data(h, m), data(h, n))
    /\ \A m \in Elems(owned(h, right(h, n), MaxNodes)) : DataLt(data(h, n), data(h, m))
\* no two reachable nodes hold equal values
NoDuplicate(h) ==
  \A a \in Nodes(h) : \A b \in Nodes(h) : a # b => ~DataEq(data(h, a), data(h, b))

\* the node a removing call was applied to, in the heap it found
Target == IF call.op = "remove_node" THEN call.retNode ELSE get_node(call.h0, call.arg)
\* the call removed a node: remove that found its value, or remove_node
Removed ==
  \/ call.op = "remove" /\ call.retBool
  \/ call.op = "remove_node"
\* the nodes of the heap before the call that are no longer reachable after
Detached == Nodes(call.h0) \ Nodes(call.h1)
\* n hangs in h1 where it hung in h0: the root, or the same child slot of
\* the same parent
SameSlot(h0, h1, n) ==
  /\ (h0.root = n) = (h1.root = n)
  /\ parent(h0, n) = parent(h1, n)
  /\ is_left_child(h0, n) = is_left_child(h1, n)
\* n has exactly one child in h
OneChild(h, n) == (left(h, n) = Nil) # (right(h, n) = Nil)
\* the only child of a node with exactly one child
OnlyChild(h, n) == IF left(h, n) # Nil THEN left(h, n) ELSE right(h, n)
\* c hangs in h1 in the slot n had in h0
TakesSlot(h0, h1, n, c) ==
  IF h0.root = n THEN h1.root = c
  ELSE /\ parent(h1, c) = parent(h0, n)
       /\ IF is_left_child(h0, n) THEN left(h1, parent(h0, n)) = c
          ELSE right(h1, parent(h0, n)) = c
\* n is a Red node without children in h
RedLeaf(h, n) == n # Nil /\ colour(h, n) = Red /\ left(h, n) = Nil /\ right(h, n) = Nil
\* the node that remove_node ends up detaching as a leaf: the target itself,
\* or its successor when the target has two children
LeafGone ==
  IF left(call.h0, Target) # Nil /\ right(call.h0, Target) # Nil
  THEN successor(call.h0, Target) ELSE Target
\* the heap remove_node is applied to when it reaches LeafGone: the heap
\* before the call, after the value swap when the target has two children
LeafHeap ==
  IF LeafGone # Target THEN swap_data(call.h0, LeafGone, Target) ELSE call.h0
\* h1 is h0 with the leaf n taken out of its parent's child slot and nothing
\* else changed in any other node
OnlyDetached(h0, h1, n) ==
  /\ h1.root = h0.root
  /\ \A m \in Nodes(h0) \ {n} :
       /\ colour(h1, m) = colour(h0, m)
       /\ data(h1, m) = data(h0, m)
       /\ parent(h1, m) = parent(h0, m)
       /\ left(h1, m) = (IF left(h0, m) = n THEN Nil ELSE left(h0, m))
       /\ right(h1, m) = (IF right(h0, m) = n THEN Nil ELSE right(h0, m))
\* vs[k + 1] begins where vs[k] ends
Adj(vs, k) == vs[k][3] = vs[k + 1][2]
\* the maximal runs of two or more adjacent elements of vs, as <<first, last>>
RunsOf(vs) ==
  {r \in (1..Len(vs)) \X (1..Len(vs)) :
     /\ r[1] < r[2]
     /\ \A k \in r[1]..(r[2] - 1) : Adj(vs, k)
     /\ r[1] = 1 \/ ~Adj(vs, r[1] - 1)
     /\ r[2] = Len(vs) \/ ~Adj(vs, r[2])}
\* the node of h that holds the value v
HeldBy(h, v) == CHOOSE n \in Nodes(h) : data(h, n) = v
\* the nodes that held the elements of the run r before the call
RunNodes(r) == {HeldBy(call.h0, call.vals0[k]) : k \in r[1]..r[2]}
\* the node that held the last element of the run r before the call
LastNode(r) == HeldBy(call.h0, call.vals0[r[2]])
\* the run r folded through merged: first.start..last.end
Folded(r) == SeqR(call.vals0[r[1]][2], call.vals0[r[2]][3])
\* the root of h has no parent and every child of a node of h names that
\* node as its parent
ParentLinks(h) ==
  /\ h.root # Nil => parent(h, h.root) = Nil
  /\ \A n \in Nodes(h) :
       /\ left(h, n) # Nil => parent(h, left(h, n)) = n
       /\ right(h, n) # Nil => parent(h, right(h, n)) = n
\* h1 is h after a rotation at x that brought p up: p is the root when x
\* was, else the root is the same and p hangs in the slot x had
RotatedInto(h, h1, x, p) ==
  /\ h1.ok
  /\ IF h.root = x THEN h1.root = p /\ parent(h1, p) = Nil
     ELSE /\ h1.root = h.root
          /\ parent(h1, p) = parent(h, x)
          /\ IF is_left_child(h, x) THEN left(h1, parent(h, x)) = p
             ELSE right(h1, parent(h, x)) = p
  /\ parent(h1, x) = p
  /\ ParentLinks(h1)
\* every rotation that can be applied to a node of h relinks as RotatedInto
RotationsRelink(h) ==
  \A x \in Nodes(h) :
    /\ right(h, x) # Nil => RotatedInto(h, rotate_left(h, x), x, right(h, x))
    /\ left(h, x) # Nil => RotatedInto(h, rotate_right(h, x), x, left(h, x))
\* the place of n in the ascending order of the nodes of h (0: not reachable)
Rank(h, n) ==
  IF n \in Nodes(h)
  THEN CHOOSE i \in 1..Len(owned(h, h.root, MaxNodes)) : owned(h, h.root, MaxNodes)[i] = n
  ELSE 0

\* the number of nodes on the longest path from n down to a leaf
RECURSIVE Height(_, _, _)
Height(h, n, d) ==
  IF n = Nil \/ d = 0 THEN 0
  ELSE LET l == Height(h, left(h, n), d - 1)
           r == Height(h, right(h, n), d - 1)
       IN 1 + (IF l >= r THEN l ELSE r)
RECURSIVE Pow2(_)
Pow2(k) == IF k = 0 THEN 1 ELSE 2 * Pow2(k - 1)

\* the subtrees at a and b have the same shape, colours and values
RECURSIVE SameTree(_, _, _)
SameTree(h, a, b) ==
  IF a = Nil \/ b = Nil THEN a = b
  ELSE /\ colour(h, a) = colour(h, b)
       /\ data(h, a) = data(h, b)
       /\ SameTree(h, left(h, a), left(h, b))
       /\ SameTree(h, right(h, a), right(h, b))

\* C1: after every completed insert and remove the root is Black, no Red
\* node has a Red child, and every path from the root to an absent child
\* passes through the same number of Black nodes.
C1_ColourInvariants ==
  RootBlack(H) /\ NoRedRed(H) /\ BlackHeight(H, root) # -1

\* a remove whose fixup climbed to an inner node and rotated there
C1_Witness ==
  /\ call.op = "remove" /\ call.retBool
  /\ call.calls >= 2 /\ "nephew_red" \in call.tags
  /\ length >= 5

\* C2: values() yields exactly the elements of the reference set, each once,
\* in strictly ascending order.
C2_ValuesMatchReference ==
  LET vs == values(H)
  IN Elems(vs) = ref /\ Len(vs) = Cardinality(ref) /\ Ascending(vs)

\* a remove of a value held by a node with two children
C2_Witness ==
  /\ call.op = "remove" /\ call.retBool /\ "two_children" \in call.tags
  /\ Cardinality(ref) >= 4 /\ Len(values(H)) >= 4

\* C3: len() is the number of nodes reachable from the root and the number
\* of items of a full iter(); is_empty() holds exactly when it is 0.
C3_LenCountsNodes ==
  LET n == Cardinality(Nodes(H))
  IN /\ len(H) = n
     /\ Len(collect(H, iter(H), MaxNodes + 1)) = n
     /\ is_empty(H) <=> (n = 0)

\* a repack that merged a run, leaving a set that is not empty
C3_Witness == call.op = "repack" /\ call.was /\ length >= 1 /\ ~is_empty(H)

\* C4: insert(v) on a set that holds a value equal to v returns None and
\* changes neither len(), the traversal order, the shape, a colour nor a value.
C4_InsertPresentNoop ==
  [][(call'.op = "insert" /\ (\E m \in Members(H) : DataEq(call'.arg, m)))
       => (call'.retNode = Nil /\ TreeUnchanged)]_vars

\* an insert of a value the set already held
C4_Witness ==
  /\ call.op = "insert" /\ call.arg \in call.mem0 /\ call.retNode = Nil
  /\ call.arg \in Members(H) /\ length >= 2

\* C5: insert(v) on a set that holds no value equal to v returns a handle of
\* a reachable node holding v; the contents become the old ones plus v and
\* len() grows by 1.
C5_InsertAbsent ==
  (call.op = "insert" /\ ~(\E m \in call.mem0 : DataEq(call.arg, m)))
    => /\ call.retNode # Nil
       /\ call.retNode \in Nodes(H)
       /\ data(H, call.retNode) = call.arg
       /\ Members(H) = call.mem0 \cup {call.arg}
       /\ Elems(values(H)) = Elems(call.vals0) \cup {call.arg}
       /\ Len(values(H)) = Len(call.vals0) + 1
       /\ len(H) = call.len0 + 1

\* an insert of a new value that had to rotate
C5_Witness ==
  /\ call.op = "insert" /\ call.arg \notin call.mem0 /\ call.retNode # Nil
  /\ "uncle_black" \in call.tags /\ length >= 3

\* C6: remove(v) on a set that holds v returns true; values() becomes the old
\* sequence with v deleted and len() shrinks by 1.
C6_RemovePresent ==
  (call.op = "remove" /\ call.arg \in call.mem0)
    => /\ call.retBool
       /\ values(H) = Without(call.vals0, call.arg)
       /\ call.arg \notin Members(H)
       /\ Members(H) = call.mem0 \ {call.arg}
       /\ len(H) = call.len0 - 1

\* a remove of a value held by a node with two children whose successor has
\* a child
C6_Witness ==
  /\ call.op = "remove" /\ call.retBool /\ call.arg \in call.mem0
  /\ {"two_children", "one_child"} \subseteq call.tags

\* C7: remove(v) on a set that does not hold v returns false and changes
\* neither len(), the shape, a colour nor a value.
C7_RemoveAbsentNoop ==
  [][(call'.op = "remove" /\ call'.arg \notin Members(H))
       => (~call'.retBool /\ TreeUnchanged)]_vars

\* a remove of a value that a set of three or more does not hold
C7_Witness ==
  /\ call.op = "remove" /\ call.arg \notin call.mem0 /\ ~call.retBool
  /\ call.arg \notin Members(H) /\ length >= 3

\* C8: get(v) returns v and get_node(v) the reachable node holding v exactly
\* when v is in the set; both return None otherwise.
C8_Lookup ==
  \A v \in IntVals :
    IF v \in Members(H)
    THEN get(H, v) = v /\ get_node(H, v) \in Nodes(H) /\ data(H, get_node(H, v)) = v
    ELSE get(H, v) = NoData /\ get_node(H, v) = Nil

\* a get that found its value below the root
C8_Witness ==
  /\ call.op = "get" /\ call.retData = call.arg /\ call.retNode # Nil
  /\ call.retNode # root /\ length >= 4

\* C9: clone() yields a set with the same traversal order, length, shape and
\* colours that shares no node with the source; a later insert/remove on one
\* of the two leaves values() and len() of the other unchanged.
C9_CloneIndependent ==
  /\ cloned => Nodes(H) \cap Nodes(HC) = {}
  /\ call.op = "clone"
       => /\ values(HC) = call.vals0 /\ values(H) = call.vals0
          /\ clength = call.len0 /\ length = call.len0
          /\ SameTree(H, root, croot)
  /\ (cloned /\ call.op \in {"insert", "remove"})
       => values(HC) = call.ovals0 /\ clength = call.olen0
  /\ call.op \in {"clone.insert", "clone.remove"}
       => values(H) = call.ovals0 /\ length = call.olen0

\* a remove on the source that left the clone larger than the source
C9_Witness ==
  /\ cloned /\ call.op = "remove" /\ call.retBool
  /\ clength > length /\ clength >= 2 /\ Len(values(HC)) = clength

\* C10: on an unmodified tree iter() yields len() handles, every reachable
\* node once, in strictly ascending order of values, and then None for good.
C10_IterFinite ==
  LET items == take(H, iter(H), length + 2)
      found == SubSeq(items, 1, length)
  IN /\ \A i \in 1..length : items[i] # Nil
     /\ items[length + 1] = Nil /\ items[length + 2] = Nil
     /\ Elems(found) = Nodes(H)
     /\ Cardinality(Elems(found)) = length
     /\ Ascending(values_of(H, found))

\* an iteration over a set of five or more, run past its end
C10_Witness ==
  /\ call.op = "iter" /\ Len(call.items) >= 7
  /\ call.items[Len(call.items)] = Nil /\ call.items[1] # Nil
  /\ call.items = take(H, iter(H), length + 2)

\* C11: for a handle of get_node(v), iter_from and values_from yield v and
\* then exactly the elements greater than v, ascending, then None; nothing
\* smaller than v is yielded.
C11_IterFromSuffix ==
  call.op = "iter_from"
    => LET want == SortSet({x \in ref : DataLe(call.arg, x)})
           k == Len(want)
       IN /\ k >= 1 /\ want[1] = call.arg
          /\ Len(call.items) = length + 2
          /\ \A i \in 1..k : call.items[i] \in Nodes(H) /\ data(H, call.items[i]) = want[i]
          /\ \A i \in (k + 1)..(length + 2) : call.items[i] = Nil
          /\ values_from(H, call.retNode) = want
          /\ \A i \in 1..Len(values_from(H, call.retNode)) :
                ~DataLt(values_from(H, call.retNode)[i], call.arg)

\* an iter_from at a node below the root with smaller and greater elements
C11_Witness ==
  /\ call.op = "iter_from" /\ call.retNode # root
  /\ \E x \in ref : DataLt(x, call.arg)
  /\ Cardinality({x \in ref : DataLt(call.arg, x)}) >= 3
  /\ call.items[4] # Nil /\ call.items[Len(call.items)] = Nil

\* C12: on pairwise disjoint ranges one repack() replaces every maximal run
\* of two or more adjacent elements by first.start..last.end, leaves the
\* other elements untouched and reduces len() by the number absorbed.
C12_RepackMergesRuns ==
  call.op = "repack"
    => /\ ok
       /\ values(H) = PackSeq(call.vals0)
       /\ len(H) = call.len0 - (Len(call.vals0) - Len(PackSeq(call.vals0)))
       /\ len(H) = Len(values(H))

\* a repack that merged a run of three next to an element it left alone
C12_Witness ==
  /\ call.op = "repack" /\ call.len0 >= 4 /\ length = call.len0 - 2
  /\ \E i \in 1..Len(call.vals0) : call.vals0[i] \in Members(H)
  /\ \E m \in Members(H) : m[3] - m[2] >= 3 /\ m \notin Elems(call.vals0)

\* C13: repack() on a set in which no element is consecutive to its
\* predecessor (the empty and the one-element set included) changes neither
\* values(), len(), the shape nor a colour.
C13_RepackNoop ==
  (call.op = "repack" /\ NoAdjacent(call.vals0))
    => /\ ok
       /\ call.h1 = call.h0
       /\ values(H) = call.vals0
       /\ len(H) = call.len0

\* a repack of three elements with gaps between them
C13_Witness ==
  /\ call.op = "repack" /\ NoAdjacent(call.vals0)
  /\ call.len0 = 3 /\ length = 3 /\ call.h0.root # Nil

\* C14: in every state reached by insert and remove the height h (nodes on
\* the longest path from the root to a leaf) and n = len() satisfy
\* n + 1 >= 2^ceil(h/2).
C14_HeightLogarithmic ==
  len(H) + 1 >= Pow2((Height(H, root, MaxNodes) + 1) \div 2)

\* a remove that left a tree of height 4 with at most six elements
C14_Witness ==
  /\ call.op = "remove" /\ call.retBool
  /\ Height(H, root, MaxNodes) = 4 /\ length <= 6

\* C15: in any sequence of insert, remove, remove_node on a handle just
\* obtained from get_node, clear and repack from an empty set, no unwrap()
\* or expect() meets an absent value and length never underflows.
C15_NoPanic == ok

\* a remove_node whose fixup rotated, after which the set still works
C15_Witness ==
  /\ call.op = "remove_node" /\ "nephew_red" \in call.tags /\ call.calls >= 1
  /\ ok /\ length >= 3

\* C16: after every insert, remove and repack on disjoint range payloads the
\* tree is a binary search tree without duplicates: left subtrees hold
\* strictly smaller values, right subtrees strictly greater ones, and no two
\* reachable nodes hold equal values.
C16_SearchTree == SearchOrder(H) /\ NoDuplicate(H)

\* a repack that wrote a merged value into a node with two children
C16_Witness ==
  /\ call.op = "repack" /\ call.was /\ length >= 3
  /\ \E n \in Nodes(H) :
        /\ data(H, n) \notin Elems(call.vals0)
        /\ left(H, n) # Nil /\ right(H, n) # Nil

\* C17 as stated, the old position read as the place in the tree: after
\* remove_node on a node with two children the node is still reachable in
\* the slot it had, holds the successor's former value, and the successor
\* node is the only node no longer reachable.
C17_SamePlaceInTree ==
  (Removed /\ left(call.h0, Target) # Nil /\ right(call.h0, Target) # Nil)
    => /\ Target \in Nodes(call.h1)
       /\ data(call.h1, Target) = data(call.h0, successor(call.h0, Target))
       /\ Detached = {successor(call.h0, Target)}
       /\ SameSlot(call.h0, call.h1, Target)

\* C17: after remove_node on a node with two children the node is still
\* reachable at its old place in the ascending order, holds the successor's
\* former value, and the successor node is the only node no longer reachable.
C17_TwoChildrenSwap ==
  (Removed /\ left(call.h0, Target) # Nil /\ right(call.h0, Target) # Nil)
    => /\ Target \in Nodes(call.h1)
       /\ data(call.h1, Target) = data(call.h0, successor(call.h0, Target))
       /\ Detached = {successor(call.h0, Target)}
       /\ Rank(call.h1, Target) = Rank(call.h0, Target)

\* a remove of a node with two children whose successor was a Black leaf,
\* where the rebalancing rotated the node into another slot
C17_Witness ==
  /\ Removed /\ left(call.h0, Target) # Nil /\ right(call.h0, Target) # Nil
  /\ {"two_children", "leaf", "double_black"} \subseteq call.tags
  /\ Target \in Nodes(call.h1)
  /\ ~SameSlot(call.h0, call.h1, Target)

C19_RedLeafOnlyDetached ==
  (Removed /\ RedLeaf(LeafHeap, LeafGone))
    => OnlyDetached(LeafHeap, call.h1, LeafGone)

\* a Red leaf that had a sibling was removed: 'sibling.set_colour' ran
C19_Witness ==
  /\ Removed /\ RedLeaf(call.h0, Target)
  /\ sibling(call.h0, Target) # Nil
  /\ "leaf" \in call.tags /\ "double_black" \notin call.tags
  /\ Target \notin Nodes(call.h1)

C21_ThreeInsertsOneTree ==
  length = 3
    => /\ ok
       /\ Len(values(H)) = 3
       /\ colour(H, root) = Black /\ data(H, root) = values(H)[2]
       /\ parent(H, root) = Nil
       /\ left(H, root) # Nil /\ right(H, root) # Nil
       /\ RedLeaf(H, left(H, root)) /\ data(H, left(H, root)) = values(H)[1]
       /\ RedLeaf(H, right(H, root)) /\ data(H, right(H, root)) = values(H)[3]
       /\ parent(H, left(H, root)) = root /\ parent(H, right(H, root)) = root

\* the third insert was the middle value: a rotation at the parent, then one
\* at the old root
C21_Witness ==
  /\ length = 3 /\ call.op = "insert" /\ call.len0 = 2
  /\ "uncle_black" \in call.tags
  /\ call.arg = values(H)[2] /\ data(H, root) = call.arg

\* C22: every insert and remove returns, and the invocations of balance or
\* double_black_fixup it makes (the first one and the retry after a Red
\* sibling included) number at most height + 1, height being the number of
\* nodes on the longest path from the root to a leaf before the call.
C22_FixupBounded ==
  [][call'.op \in {"insert", "remove"}
       => ok' /\ call'.calls <= Height(H, root, MaxNodes) + 1]_vars

\* a remove whose fixup climbed from a Black leaf to its parent, met a Red
\* sibling there and fixed the parent again
C22_Witness ==
  /\ call.op = "remove" /\ call.retBool /\ ok
  /\ {"double_black", "nephews_black", "sibling_red"} \subseteq call.tags
  /\ call.calls >= 3

C24_HandlesStable ==
  (call.op = "remove" /\ call.retBool)
    => \A w \in call.mem0 \ {call.arg} :
         /\ get_node(call.h0, w) \in Nodes(call.h1)
         /\ data(call.h1, get_node(call.h0, w)) = w

\* C25: no call takes the 'no sibling' branch of double_black_fixup; a
\* delete-fixup is only started by the removal of a Black leaf, never on a
\* spliced-in replacement; and every node with exactly one child is Black
\* with a Red leaf as that child.
C25_FixupHasSibling ==
  /\ ok
  /\ "no_sibling" \notin call.tags
  /\ (Removed /\ "double_black" \in call.tags)
       => "leaf" \in call.tags /\ "one_child" \notin call.tags
  /\ \A n \in Nodes(H) :
       OneChild(H, n) => colour(H, n) = Black /\ RedLeaf(H, OnlyChild(H, n))

\* a remove of a Black leaf whose fixup went on to the parent and to the
\* grandparent, each of which had a sibling
C25_Witness ==
  /\ call.op = "remove" /\ call.retBool
  /\ {"leaf", "double_black", "nephews_black"} \subseteq call.tags
  /\ call.calls >= 3

====
